---- MODULE Spec2Model ----
(***************************************************************************)
(* The conversational messaging pipeline of StudyBuddy ("Learning VI"):    *)
(* the prefix router and completion gateway (server/services/openai.ts),   *)
(* the store (server/storage.ts), the POST /api/conversations/:id/messages *)
(* handler (server/routes.ts, kept in src/replit.md from line 91 on) and   *)
(* the realtime hub (server/services/websocket.ts, src/unnamed/part_003).  *)
(*                                                                         *)
(* Strings are sequences of one-character strings, so that lower-casing,   *)
(* prefix matching, substring and trim are computed, not assumed.          *)
(***************************************************************************)
EXTENDS Integers, Sequences, FiniteSets, TLC

VARIABLES
    routeIn,     \* the raw message handed to getModelAndPrompt
    routeOut,    \* its result, or NoResult before the call
    messages,    \* the messages table: a set of rows
    conversations, \* the conversations table: conversation id -> row
    now,         \* the server clock read by new Date()
    nextId,      \* the next message id the database hands out
    runs,        \* the POST handler invocations: run id -> record
    broadcasts,  \* the notifyNewMessage invocations, in order
    clients,     \* the hub's client registry: client id -> entry
    titleIn,     \* the exchange handed to generateTitle and the provider's answer
    titleOut,    \* the title it returned, or nothing before the call
    reply,       \* the last response of a conversation route, if any
    sent,        \* the frames the hub's last handler sent, if any
    gone         \* the clients whose connection closed or failed, with
                 \* the conversationId their entry had

routeVars == <<routeIn, routeOut>>
storeVars == <<messages, conversations, now, nextId>>
pipeVars  == <<runs, broadcasts>>
titleVars == <<titleIn, titleOut>>
vars == <<routeIn, routeOut, messages, conversations, now, nextId, runs, broadcasts, clients,
          titleIn, titleOut, reply, sent, gone>>

----------------------------------------------------------------------------
(* Strings *)

UpperCase == <<"A","B","C","D","E","F","G","H","I","J","K","L","M",
               "N","O","P","Q","R","S","T","U","V","W","X","Y","Z">>
LowerCase == <<"a","b","c","d","e","f","g","h","i","j","k","l","m",
               "n","o","p","q","r","s","t","u","v","w","x","y","z">>

WhiteSpace == {" ", "\t", "\n"}

\* the lower-case letter of each upper-case letter
LowerOf ==
    [A |-> "a", B |-> "b", C |-> "c", D |-> "d", E |-> "e", F |-> "f", G |-> "g",
     H |-> "h", I |-> "i", J |-> "j", K |-> "k", L |-> "l", M |-> "m", N |-> "n",
     O |-> "o", P |-> "p", Q |-> "q", R |-> "r", S |-> "s", T |-> "t", U |-> "u",
     V |-> "v", W |-> "w", X |-> "x", Y |-> "y", Z |-> "z"]

toLowerChar(ch) == IF ch \in DOMAIN LowerOf THEN LowerOf[ch] ELSE ch

toLowerCase(s) == [i \in 1..Len(s) |-> toLowerChar(s[i])]

startsWith(s, p) == Len(p) <= Len(s) /\ SubSeq(s, 1, Len(p)) = p

substring(s, n) == SubSeq(s, n + 1, Len(s))

RECURSIVE trimStart(_)
trimStart(s) ==
    IF s # <<>> /\ Head(s) \in WhiteSpace THEN trimStart(Tail(s)) ELSE s

RECURSIVE trimEnd(_)
trimEnd(s) ==
    IF s # <<>> /\ s[Len(s)] \in WhiteSpace THEN trimEnd(SubSeq(s, 1, Len(s) - 1)) ELSE s

trim(s) == trimEnd(trimStart(s))

----------------------------------------------------------------------------
(* Prefix router: OpenAIService.getModelAndPrompt *)

Gpt4o == <<"g","p","t","-","4","o">>

CodePrefix     == <<"c","o","d","e",":">>
ResearchPrefix == <<"r","e","s","e","a","r","c","h",":">>
CreativePrefix == <<"c","r","e","a","t","i","v","e",":">>
AnalysisPrefix == <<"a","n","a","l","y","s","i","s",":">>

\* Object.entries(modelRouting), in insertion order; the system prompts are
\* abbreviated to one token each, they are four distinct non-empty strings.
\* An absent system prompt (undefined) is the empty sequence.
modelRouting ==
    << [prefix |-> CodePrefix,     model |-> Gpt4o, systemPrompt |-> <<"expert software developer">>],
       [prefix |-> ResearchPrefix, model |-> Gpt4o, systemPrompt |-> <<"research assistant">>],
       [prefix |-> CreativePrefix, model |-> Gpt4o, systemPrompt |-> <<"creative writing assistant">>],
       [prefix |-> AnalysisPrefix, model |-> Gpt4o, systemPrompt |-> <<"data analyst">>] >>

DefaultModel == Gpt4o

\* a variant that strips the prefix from the lower-cased message
cleanedMessageLowercased(message, prefix) ==
    trim(substring(toLowerCase(message), Len(prefix)))

cleanedMessage(message, prefix) == trim(substring(message, Len(prefix)))

matches(lowercaseMessage, prefix) == startsWith(lowercaseMessage, prefix)

\* the loop over the entries returns at the first entry whose prefix matches;
\* returned[i] is what it returns at entry i
getModelAndPrompt(message) ==
    LET lowercaseMessage == toLowerCase(message)
        hits == {i \in 1..Len(modelRouting) : matches(lowercaseMessage, modelRouting[i].prefix)}
        returned == [i \in 1..Len(modelRouting) |->
                        [model |-> modelRouting[i].model,
                         systemPrompt |-> modelRouting[i].systemPrompt,
                         cleanedMessage |-> cleanedMessage(message, modelRouting[i].prefix)]]
    IN  IF hits # {}
        THEN returned[CHOOSE i \in hits : \A j \in hits : i <= j]
        ELSE [model |-> DefaultModel, systemPrompt |-> <<>>, cleanedMessage |-> message]


----------------------------------------------------------------------------
(* Bounds of the model *)

MaxRuns == 2          \* POST handler invocations in one behaviour

----------------------------------------------------------------------------
(* The store: DatabaseStorage over the conversations and messages tables *)
(*                                                                         *)
(* The store answers every call: connection and query errors are not       *)
(* modelled.  Successive readings of the clock (new Date()) are taken to   *)
(* be distinct and increasing, so createdAt orders the rows of a log       *)
(* totally; a row's createdAt is read when addMessage is called, before    *)
(* the insert is executed.                                                 *)

NewConversation == <<"N","e","w"," ","C","o","n","v","e","r","s","a","t","i","o","n">>

\* tokenCount and model of a row are nullable; NoTokens stands for NULL
NoTokens == -1
NoModel == <<>>

Users == {"u1", "u2"}
ConversationIds == {"c1", "c2", "c9"}      \* c9 is the id of no conversation

getConversation(id, userId) ==
    IF id \in DOMAIN conversations /\ conversations[id].userId = userId
    THEN <<conversations[id]>>
    ELSE <<>>

updateConversation(id, userId, title) ==
    IF id \in DOMAIN conversations /\ conversations[id].userId = userId
    THEN [conversations EXCEPT ![id].title = title]
    ELSE conversations

\* db.delete(conversations).where(id and userId): the table afterwards
deleteConversation(id, userId) ==
    IF getConversation(id, userId) # <<>>
    THEN [c \in DOMAIN conversations \ {id} |-> conversations[c]]
    ELSE conversations

\* a variant of the delete that clears the messages table
cascadeAll(remaining) == {m \in messages : FALSE}

\* onDelete: "cascade": the messages table after the rows of the deleted
\* conversations have gone with them
cascade(remaining) == {m \in messages : m.conversationId \in DOMAIN remaining}

\* a variant of the insert's check without the foreign key
referencesAnything(values) == TRUE

\* conversation_id references conversations.id: the insert is refused when
\* the conversation row is not there
referencesConversation(values) == values.conversationId \in DOMAIN conversations

\* .orderBy(messages.createdAt): the rows of one conversation, oldest first
\* (the i-th row is the one with i - 1 rows before it; rows are told apart
\* by their id where their createdAt is the same)
orderByCreatedAt(rows) ==
    [i \in 1..Cardinality(rows) |->
        CHOOSE m \in rows :
            Cardinality({x \in rows : \/ x.createdAt < m.createdAt
                                      \/ x.createdAt = m.createdAt /\ x.id < m.id}) = i - 1]

\* a variant that reads the log newest first
selectMessagesNewestFirst(conversationId) ==
    LET log == orderByCreatedAt({m \in messages : m.conversationId = conversationId})
    IN  [i \in 1..Len(log) |-> log[Len(log) + 1 - i]]

\* a variant that returns the rows in the order of their insertion
selectMessagesAsInserted(conversationId) ==
    LET rows == {m \in messages : m.conversationId = conversationId}
    IN  [i \in 1..Cardinality(rows) |->
            CHOOSE m \in rows : Cardinality({x \in rows : x.id < m.id}) = i - 1]

\* a variant without the where clause: the rows of every conversation
selectAllMessages(conversationId) == orderByCreatedAt(messages)

selectMessages(conversationId) ==
    orderByCreatedAt({m \in messages : m.conversationId = conversationId})

\* the row addMessage hands to the insert: ...message, createdAt: new Date()
insertValues(conversationId, role, content, model, tokenCount, createdAt) ==
    [conversationId |-> conversationId, role |-> role, content |-> content,
     model |-> model, tokenCount |-> tokenCount, createdAt |-> createdAt]

\* a variant that stores the content trimmed and no token count
storedRowTrimmed(values, id) ==
    [id |-> id, conversationId |-> values.conversationId, role |-> values.role,
     content |-> trim(values.content), model |-> values.model,
     tokenCount |-> NoTokens, createdAt |-> values.createdAt]

\* the stored row: the database adds the id
storedRow(values, id) ==
    [id |-> id, conversationId |-> values.conversationId, role |-> values.role,
     content |-> values.content, model |-> values.model,
     tokenCount |-> values.tokenCount, createdAt |-> values.createdAt]


----------------------------------------------------------------------------
(* Completion gateway: OpenAIService.generateResponse and generateTitle *)

HistoryLimit == 10

\* conversationHistory.slice(-HistoryLimit)
recentHistory(conversationHistory) ==
    IF Len(conversationHistory) <= HistoryLimit THEN conversationHistory
    ELSE SubSeq(conversationHistory, Len(conversationHistory) - HistoryLimit + 1,
                Len(conversationHistory))

chatMessage(role, content) == [role |-> role, content |-> content]

\* the request generateResponse sends to the provider
completionRequest(userMessage, conversationHistory) ==
    LET routed == getModelAndPrompt(userMessage)
        system == IF routed.systemPrompt # <<>>
                  THEN <<chatMessage("system", routed.systemPrompt)>> ELSE <<>>
    IN  [model |-> routed.model,
         messages |-> system \o recentHistory(conversationHistory)
                             \o <<chatMessage("user", routed.cleanedMessage)>>]

\* what the provider may answer to a completion request: an error (thrown by
\* the client library, or by reading choices[0] of a malformed response), or
\* a completion whose content may be null and whose usage may be missing
Ok == <<"o","k">>
ProviderOutcomes ==
    { [kind |-> "error",   content |-> <<>>, tokens |-> NoTokens],
      [kind |-> "null",    content |-> <<>>, tokens |-> NoTokens],
      [kind |-> "content", content |-> Ok,   tokens |-> 12] }

\* a variant that leaves the model out of the response
aiResponseOfNoModel(outcome, request) ==
    [content |-> IF outcome.kind = "content" THEN outcome.content ELSE <<>>,
     model |-> NoModel,
     tokenCount |-> outcome.tokens]

\* content = response.choices[0].message.content || ''
aiResponseOf(outcome, request) ==
    [content |-> IF outcome.kind = "content" THEN outcome.content ELSE <<>>,
     model |-> request.model,
     tokenCount |-> outcome.tokens]

\* messages.find(m => m.role === 'user')?.content || ''
firstUserMessage(msgs) ==
    LET hits == {i \in 1..Len(msgs) : msgs[i].role = "user"}
    IN  IF hits = {} THEN <<>>
        ELSE msgs[CHOOSE i \in hits : \A j \in hits : i <= j].content

TitleText == <<" ","H","i"," ">>
Blank == <<" "," ">>
TitleOutcomes ==
    { [kind |-> "error",   content |-> <<>>],
      [kind |-> "null",    content |-> <<>>],
      [kind |-> "content", content |-> Blank],
      [kind |-> "content", content |-> TitleText] }

\* a variant that returns the provider's content as it came
titleOfUntrimmed(outcome) ==
    IF outcome.kind = "content" THEN outcome.content ELSE NewConversation

\* response.choices[0].message.content?.trim() || 'New Conversation', and the
\* catch block's 'New Conversation'
titleOf(outcome) ==
    IF outcome.kind = "content" /\ trim(outcome.content) # <<>>
    THEN trim(outcome.content)
    ELSE NewConversation

\* generateTitle as a whole: no request is made without a first user message
generateTitle(msgs, outcome) ==
    IF firstUserMessage(msgs) = <<>> THEN NewConversation ELSE titleOf(outcome)


----------------------------------------------------------------------------
(* Realtime hub: WebSocketService *)

ClientIds == {"k1", "k2", "k3"}

NoClients == [k \in {} |-> [open |-> TRUE, userId |-> "", conversationId |-> ""]]
NoneGone == [k \in {} |-> ""]

\* a variant that does not leave the excluded client out
broadcastToConversationEchoing(conversationId, excludeClientId) ==
    {k \in DOMAIN clients : /\ clients[k].conversationId = conversationId
                            /\ clients[k].open}

\* a variant that sends to the clients of every conversation
broadcastToEveryone(conversationId, excludeClientId) ==
    {k \in DOMAIN clients : k # excludeClientId /\ clients[k].open}

\* a variant that does not look at the socket's readyState
broadcastToConversationAnyState(conversationId, excludeClientId) ==
    {k \in DOMAIN clients : /\ clients[k].conversationId = conversationId
                            /\ k # excludeClientId}

\* the clients that broadcastToConversation sends to
broadcastToConversation(conversationId, excludeClientId) ==
    {k \in DOMAIN clients : /\ clients[k].conversationId = conversationId
                            /\ k # excludeClientId
                            /\ clients[k].open}

\* the frame notifyNewMessage broadcasts, with the clients it is sent to
messageFrame(conversationId, data) ==
    [type |-> "message", conversationId |-> conversationId, data |-> data,
     to |-> broadcastToConversation(conversationId, "")]

----------------------------------------------------------------------------
(* Messaging pipeline: app.post('/api/conversations/:id/messages') *)

RunIds == 1..MaxRuns

Hi == <<"h","i">>
CodeHi == <<"C","o","d","e",":"," ","H","i"," ">>

\* req.body.content: a number, the empty string, and two non-empty strings
Bodies ==
    { [kind |-> "number", text |-> <<>>],
      [kind |-> "string", text |-> <<>>],
      [kind |-> "string", text |-> Hi],
      [kind |-> "string", text |-> CodeHi] }

\* the requests of the model: the owner's submissions to c1 with each body,
\* the owner's submission to the long conversation c2, a submission to a
\* conversation of another user, and one to a conversation that does not exist
Requests ==
    { [userId |-> "u1", conversationId |-> "c1", body |-> b] : b \in Bodies }
    \cup { [userId |-> "u2", conversationId |-> "c2", body |-> [kind |-> "string", text |-> Hi]],
           [userId |-> "u2", conversationId |-> "c1", body |-> [kind |-> "string", text |-> Hi]],
           [userId |-> "u1", conversationId |-> "c9", body |-> [kind |-> "string", text |-> Hi]] }

\* a variant that checks the type only
validContentTypeOnly(body) == body.kind = "string"

\* the negation of: !content || typeof content !== 'string'
validContent(body) == body.kind = "string" /\ body.text # <<>>

\* a handler that has not been invoked yet.  Optional locals are sequences
\* of length 0 or 1.  inflight, logBefore, answer and titleAnswer are history
\* fields: the runs in flight when this one arrived, the conversation's log
\* as it stood when this run's user message was inserted, and what the
\* provider answered to this run's completion request and title request.
IdleRun ==
    [pc |-> "idle", userId |-> "", conversationId |-> "",
     body |-> [kind |-> "string", text |-> <<>>],
     values |-> <<>>, userMessage |-> <<>>, messages |-> <<>>,
     request |-> <<>>, aiResponse |-> <<>>, aiMessage |-> <<>>,
     titleRequest |-> <<>>, title |-> <<>>,
     status |-> "", json |-> <<>>,
     inflight |-> {}, logBefore |-> <<>>, answer |-> "", titleAnswer |-> ""]

Running(r) == runs[r].pc \notin {"idle", "done"}

\* res.status(code).json(...): the handler is over
respond(run, status, json) == [run EXCEPT !.pc = "done", !.status = status, !.json = json]

\* messages.filter(m => m.id !== userMessage.id).map(m => ({role, content}))
conversationHistory(msgs, userMessage) ==
    LET kept == SelectSeq(msgs, LAMBDA m : m.id # userMessage.id)
    IN  [i \in 1..Len(kept) |-> chatMessage(kept[i].role, kept[i].content)]

\* a variant that also takes later exchanges for the first
isFirstExchangeOrLater(msgs) == Len(msgs) >= 1

\* a variant that counts a log of two messages as the first exchange too
isFirstExchangeUpToTwo(msgs) == Len(msgs) <= 2

\* messages.length === 1
isFirstExchange(msgs) == Len(msgs) = 1

\* a variant that stores the routed (cleaned) message
userMessageValuesCleaned(run, createdAt) ==
    insertValues(run.conversationId, "user",
                 getModelAndPrompt(run.body.text).cleanedMessage, NoModel, NoTokens, createdAt)

\* storage.addMessage({conversationId, role: 'user', content})
userMessageValues(run, createdAt) ==
    insertValues(run.conversationId, "user", run.body.text, NoModel, NoTokens, createdAt)

\* storage.addMessage({conversationId, role: 'assistant', content, model, tokenCount})
aiMessageValues(run, aiResponse, createdAt) ==
    insertValues(run.conversationId, "assistant", aiResponse.content,
                 aiResponse.model, aiResponse.tokenCount, createdAt)

\* a variant of the catch block that sends no response
failedWithoutResponse(run) == [run EXCEPT !.pc = "failed"]

\* a variant of the catch block that answers 200
failedAsSuccess(run) == respond(run, "200", <<"Failed to send message">>)

\* the catch block of the handler: res.status(500)
failed(run) == respond(run, "500", <<"Failed to send message">>)

\* a variant that swallows the error and goes on with an empty completion
onGenerationErrorSwallowed(run) ==
    LET aiResponse == [content |-> <<>>, model |-> run.request[1].model, tokenCount |-> NoTokens]
    IN  [run EXCEPT !.pc = "addAiMessage", !.aiResponse = <<aiResponse>>,
                    !.values = <<aiMessageValues(run, aiResponse, now + 1)>>]

\* generateResponse's catch block rethrows, and the handler's catch answers 500
onGenerationError(run) == failed(run)

\* the request generateTitle sends to the provider
titleRequest(msgs) ==
    [model |-> Gpt4o,
     messages |-> <<chatMessage("system", <<"Generate a short, descriptive title">>),
                    chatMessage("user", firstUserMessage(msgs))>>]

\* a variant in which generateTitle lets the provider's error escape
onTitleAnswerThrowing(run, outcome) ==
    IF outcome.kind = "error" THEN failed(run)
    ELSE [run EXCEPT !.pc = "updateConversation", !.title = <<titleOf(outcome)>>]

\* generateTitle returns (it catches the provider's error), and
\* storage.updateConversation is called with the title
onTitleAnswer(run, outcome) ==
    [run EXCEPT !.pc = "updateConversation", !.title = <<titleOf(outcome)>>]

\* A request arrives: the handler starts and awaits storage.getConversation.
Submit(r, userId, conversationId, body) ==
    /\ runs[r].pc = "idle"
    /\ [userId |-> userId, conversationId |-> conversationId, body |-> body] \in Requests
    /\ \A q \in RunIds : q < r => runs[q].pc # "idle"
    /\ runs' = [runs EXCEPT ![r] =
                   [IdleRun EXCEPT !.pc = "getConversation", !.userId = userId,
                                   !.conversationId = conversationId, !.body = body,
                                   !.inflight = {q \in RunIds : Running(q)}]]
    /\ UNCHANGED <<routeVars, titleVars, reply, sent, storeVars, broadcasts, clients, gone>>

\* getConversation returns: 404, 400, or addMessage is called for the user
\* message (its createdAt is read from the clock at the call).
GetConversationReturns(r) ==
    LET run == runs[r] IN
    /\ run.pc = "getConversation"
    /\ IF getConversation(run.conversationId, run.userId) = <<>>
       THEN /\ runs' = [runs EXCEPT ![r] = respond(run, "404", <<"Conversation not found">>)]
            /\ UNCHANGED now
       ELSE IF ~validContent(run.body)
       THEN /\ runs' = [runs EXCEPT ![r] = respond(run, "400", <<"Message content is required">>)]
            /\ UNCHANGED now
       ELSE /\ now' = now + 1
            /\ runs' = [runs EXCEPT ![r] =
                  [run EXCEPT !.pc = "addUserMessage",
                              !.values = <<userMessageValues(run, now')>>]]
    /\ UNCHANGED <<routeVars, titleVars, reply, sent, messages, conversations, nextId, broadcasts, clients, gone>>


\* The insert of the user message is executed (it fails if the conversation
\* row is gone: conversation_id references conversations.id), and the handler
\* goes on to await storage.getConversationMessages.
AddUserMessageReturns(r) ==
    LET run == runs[r] IN
    /\ run.pc = "addUserMessage"
    /\ IF referencesConversation(run.values[1])
       THEN LET row == storedRow(run.values[1], nextId) IN
            /\ messages' = messages \cup {row}
            /\ nextId' = nextId + 1
            /\ runs' = [runs EXCEPT ![r] =
                  [run EXCEPT !.pc = "getConversationMessages", !.values = <<>>,
                              !.userMessage = <<row>>,
                              !.logBefore = selectMessages(run.conversationId)]]
       ELSE /\ runs' = [runs EXCEPT ![r] = failed(run)]
            /\ UNCHANGED <<messages, nextId>>
    /\ UNCHANGED <<routeVars, titleVars, reply, sent, conversations, now, broadcasts, clients, gone>>

\* getConversationMessages returns (it throws if the conversation is not the
\* caller's); the handler builds the history and generateResponse sends the
\* completion request.
GetConversationMessagesReturns(r) ==
    LET run == runs[r] IN
    /\ run.pc = "getConversationMessages"
    /\ IF getConversation(run.conversationId, run.userId) = <<>>
       THEN runs' = [runs EXCEPT ![r] = failed(run)]
       ELSE \E msgs \in {selectMessages(run.conversationId)} :
            \E history \in {conversationHistory(msgs, run.userMessage[1])} :
            runs' = [runs EXCEPT ![r] =
                  [run EXCEPT !.pc = "generating", !.messages = msgs,
                              !.request = <<completionRequest(run.body.text, history)>>]]
    /\ UNCHANGED <<routeVars, titleVars, reply, sent, storeVars, broadcasts, clients, gone>>

\* The provider answers the completion request: on an error the handler
\* answers 500; otherwise addMessage is called for the assistant message.
ProviderAnswers(r, outcome) ==
    LET run == runs[r] IN
    /\ run.pc = "generating"
    /\ IF outcome.kind = "error"
       THEN /\ runs' = [runs EXCEPT ![r] =
                  [onGenerationError(run) EXCEPT !.answer = outcome.kind]]
            /\ UNCHANGED now
       ELSE LET aiResponse == aiResponseOf(outcome, run.request[1]) IN
            /\ now' = now + 1
            /\ runs' = [runs EXCEPT ![r] =
                  [run EXCEPT !.pc = "addAiMessage", !.aiResponse = <<aiResponse>>,
                              !.answer = outcome.kind,
                              !.values = <<aiMessageValues(run, aiResponse, now')>>]]
    /\ UNCHANGED <<routeVars, titleVars, reply, sent, messages, conversations, nextId, broadcasts, clients, gone>>

\* The insert of the assistant message is executed.
AddAiMessageExecutes(r) ==
    LET run == runs[r] IN
    /\ run.pc = "addAiMessage"
    /\ IF referencesConversation(run.values[1])
       THEN LET row == storedRow(run.values[1], nextId) IN
            /\ messages' = messages \cup {row}
            /\ nextId' = nextId + 1
            /\ runs' = [runs EXCEPT ![r] =
                  [run EXCEPT !.pc = "aiMessageAdded", !.values = <<>>,
                              !.aiMessage = <<row>>]]
       ELSE /\ runs' = [runs EXCEPT ![r] = failed(run)]
            /\ UNCHANGED <<messages, nextId>>
    /\ UNCHANGED <<routeVars, titleVars, reply, sent, conversations, now, broadcasts, clients, gone>>

\* a variant whose broadcast drops the entries whose socket is not open
notifyAndRespondPruning(r) ==
    LET run == runs[r]
        data == <<run.userMessage[1], run.aiMessage[1]>>
    IN  /\ broadcasts' = Append(broadcasts, messageFrame(run.conversationId, data))
        /\ runs' = [runs EXCEPT ![r] = respond(run, "200", data)]
        /\ clients' = [k \in {j \in DOMAIN clients : clients[j].open} |-> clients[k]]

\* wsService.notifyNewMessage(conversationId, {userMessage, aiMessage}) and
\* res.json({userMessage, aiMessage}); the broadcast reads the registry and
\* writes nothing to it
notifyAndRespond(r) ==
    LET run == runs[r]
        data == <<run.userMessage[1], run.aiMessage[1]>>
    IN  /\ broadcasts' = Append(broadcasts, messageFrame(run.conversationId, data))
        /\ runs' = [runs EXCEPT ![r] = respond(run, "200", data)]
        /\ UNCHANGED clients

\* addMessage has returned the assistant message: on the first exchange
\* generateTitle is called, otherwise the handler notifies and responds.
AiMessageAddedContinues(r) ==
    LET run == runs[r]
        exchange == <<chatMessage("user", run.body.text),
                      chatMessage("assistant", run.aiResponse[1].content)>>
    IN
    /\ run.pc = "aiMessageAdded"
    /\ IF isFirstExchange(run.messages)
       THEN /\ IF firstUserMessage(exchange) = <<>>
               THEN runs' = [runs EXCEPT ![r] =
                       [run EXCEPT !.pc = "updateConversation", !.title = <<NewConversation>>]]
               ELSE runs' = [runs EXCEPT ![r] =
                       [run EXCEPT !.pc = "generatingTitle",
                                   !.titleRequest = <<titleRequest(exchange)>>]]
            /\ UNCHANGED <<broadcasts, clients>>
       ELSE notifyAndRespond(r)
    /\ UNCHANGED <<routeVars, titleVars, reply, sent, storeVars, gone>>

\* The provider answers the title request (generateTitle never throws), and
\* storage.updateConversation is called with the title.
TitleProviderAnswers(r, outcome) ==
    LET run == runs[r] IN
    /\ run.pc = "generatingTitle"
    /\ runs' = [runs EXCEPT ![r] =
          [onTitleAnswer(run, outcome) EXCEPT !.titleAnswer = outcome.kind]]
    /\ UNCHANGED <<routeVars, titleVars, reply, sent, storeVars, broadcasts, clients, gone>>

\* updateConversation is executed; the handler notifies and responds.
UpdateConversationReturns(r) ==
    LET run == runs[r] IN
    /\ run.pc = "updateConversation"
    /\ conversations' = updateConversation(run.conversationId, run.userId, run.title[1])
    /\ notifyAndRespond(r)
    /\ UNCHANGED <<routeVars, titleVars, reply, sent, messages, now, nextId, gone>>

----------------------------------------------------------------------------
(* The pipeline's specification *)

\* c2 starts with a log longer than the history limit, c1 with none
PreloadLen == 11

PreloadedRow(i) ==
    storedRow(insertValues("c2", IF i % 2 = 1 THEN "user" ELSE "assistant",
                           IF i % 2 = 1 THEN Hi ELSE Ok,
                           IF i % 2 = 1 THEN NoModel ELSE Gpt4o,
                           IF i % 2 = 1 THEN NoTokens ELSE 12, i), i)

InitConversations ==
    [c \in {"c1", "c2"} |->
        [userId |-> IF c = "c1" THEN "u1" ELSE "u2", title |-> NewConversation]]

\* two open clients of different users watching c1, one closed client on c2
InitClients ==
    [k \in ClientIds |->
        [open |-> k # "k3",
         userId |-> IF k = "k1" THEN "u1" ELSE "u2",
         conversationId |-> IF k = "k3" THEN "c2" ELSE "c1"]]

Init ==
    /\ routeIn = <<>>
    /\ routeOut = <<>>
    /\ messages = {PreloadedRow(i) : i \in 1..PreloadLen}
    /\ conversations = InitConversations
    /\ now = PreloadLen
    /\ nextId = PreloadLen + 1
    /\ runs = [r \in RunIds |-> IdleRun]
    /\ broadcasts = <<>>
    /\ clients = InitClients
    /\ titleIn = <<>>
    /\ titleOut = <<>>
    /\ reply = <<>>
    /\ sent = <<>>
    /\ gone = NoneGone

Next ==
    \/ \E r \in RunIds, u \in Users, c \in ConversationIds, b \in Bodies : Submit(r, u, c, b)
    \/ \E r \in RunIds : GetConversationReturns(r)
    \/ \E r \in RunIds : AddUserMessageReturns(r)
    \/ \E r \in RunIds : GetConversationMessagesReturns(r)
    \/ \E r \in RunIds, o \in ProviderOutcomes : ProviderAnswers(r, o)
    \/ \E r \in RunIds : AddAiMessageExecutes(r)
    \/ \E r \in RunIds : AiMessageAddedContinues(r)
    \/ \E r \in RunIds, o \in TitleOutcomes : TitleProviderAnswers(r, o)
    \/ \E r \in RunIds : UpdateConversationReturns(r)

Spec == Init /\ [][Next]_vars

\* the next step of the handler invocation r: the call it awaits returns
RunStep(r) ==
    \/ GetConversationReturns(r)
    \/ AddUserMessageReturns(r)
    \/ GetConversationMessagesReturns(r)
    \/ \E o \in ProviderOutcomes : ProviderAnswers(r, o)
    \/ AddAiMessageExecutes(r)
    \/ AiMessageAddedContinues(r)
    \/ \E o \in TitleOutcomes : TitleProviderAnswers(r, o)
    \/ UpdateConversationReturns(r)


\* the store and the provider answer every call in the end (the provider
\* client gives up with an error after its timeout), and the event loop runs
\* every continuation that is ready
SpecFair == Spec /\ \A r \in RunIds : WF_vars(RunStep(r))

\* The store call a handler invocation awaits rejects (a connection or query
\* error of the database): nothing is written, and the handler's catch block
\* answers 500.
StoreCallRejects(r) ==
    /\ runs[r].pc \in {"getConversation", "addUserMessage", "getConversationMessages",
                       "addAiMessage", "updateConversation"}
    /\ runs' = [runs EXCEPT ![r] = failed(runs[r])]
    /\ UNCHANGED <<routeVars, titleVars, reply, sent, storeVars, broadcasts, clients, gone>>

\* the pipeline over a store whose calls may fail
StoreFaultsNext == Next \/ \E r \in RunIds : StoreCallRejects(r)

SpecStoreFaults == Init /\ [][StoreFaultsNext]_vars

\* the same handlers, with requests served one at a time
SequentialNext == Next /\ Cardinality({r \in RunIds : Running(r)'}) <= 1

SpecSequential == Init /\ [][SequentialNext]_vars

----------------------------------------------------------------------------
(* The conversation routes: POST /api/conversations, PATCH, DELETE and GET  *)
(* /api/conversations/:id, GET /api/conversations/:id/messages, served      *)
(* while a submission is in flight.  Each handler awaits the store once and *)
(* is one action.                                                           *)

MaxCrudRuns == 1
CrudRunIds == 1..MaxCrudRuns

Renamed == <<"R">>
NewId == "c3"       \* the id the database gives the conversation created

\* req.body of POST and PATCH: a title, empty or not.  (The schema also lets
\* userId and model through; they are left out.)
TitleBodies == {<<>>, Renamed}

\* who asks for which conversation: the owner of c1, another user, and the
\* owner asking for a conversation that does not exist
CrudTargets ==
    { [userId |-> "u1", conversationId |-> "c1"],
      [userId |-> "u2", conversationId |-> "c1"],
      [userId |-> "u1", conversationId |-> "c9"] }

\* res.status(code).json(...) of a conversation route; changed tells whether
\* the handler changed the store
response(op, userId, conversationId, status, json, changed) ==
    <<[op |-> op, userId |-> userId, conversationId |-> conversationId,
       status |-> status, json |-> json, changed |-> changed]>>

\* app.post('/api/conversations')
CreateConversation(userId, title) ==
    /\ NewId \notin DOMAIN conversations
    /\ conversations' = [c \in DOMAIN conversations \cup {NewId} |->
                            IF c = NewId THEN [userId |-> userId, title |-> title]
                            ELSE conversations[c]]
    /\ reply' = response("create", userId, NewId, "201", <<conversations'[NewId]>>, TRUE)
    /\ UNCHANGED <<routeVars, titleVars, sent, messages, now, nextId, pipeVars, clients, gone>>

\* app.patch('/api/conversations/:id')
PatchConversation(userId, id, title) ==
    /\ [userId |-> userId, conversationId |-> id] \in CrudTargets
    /\ conversations' = updateConversation(id, userId, title)
    /\ reply' = IF getConversation(id, userId) = <<>>
                THEN response("patch", userId, id, "404", <<"Conversation not found">>,
                              conversations' # conversations)
                ELSE response("patch", userId, id, "200", <<conversations'[id]>>,
                              conversations' # conversations)
    /\ UNCHANGED <<routeVars, titleVars, sent, messages, now, nextId, pipeVars, clients, gone>>

\* app.delete('/api/conversations/:id')
DeleteConversation(userId, id) ==
    /\ [userId |-> userId, conversationId |-> id] \in CrudTargets
    /\ conversations' = deleteConversation(id, userId)
    /\ messages' = cascade(conversations')
    /\ reply' = IF getConversation(id, userId) = <<>>
                THEN response("delete", userId, id, "404", <<"Conversation not found">>,
                              conversations' # conversations \/ messages' # messages)
                ELSE response("delete", userId, id, "204", <<>>,
                              conversations' # conversations \/ messages' # messages)
    /\ UNCHANGED <<routeVars, titleVars, sent, now, nextId, pipeVars, clients, gone>>

\* app.get('/api/conversations/:id'): storage.getConversationWithMessages
GetConversation(userId, id) ==
    /\ [userId |-> userId, conversationId |-> id] \in CrudTargets
    /\ reply' = IF getConversation(id, userId) = <<>>
                THEN response("get", userId, id, "404", <<"Conversation not found">>, FALSE)
                ELSE response("get", userId, id, "200",
                              getConversation(id, userId) \o selectMessages(id), FALSE)
    /\ UNCHANGED <<routeVars, titleVars, sent, storeVars, pipeVars, clients, gone>>

\* app.get('/api/conversations/:id/messages'): storage.getConversationMessages
\* throws when the conversation is not the caller's, and the handler's catch
\* block answers 500
GetMessages(userId, id) ==
    /\ [userId |-> userId, conversationId |-> id] \in CrudTargets
    /\ reply' = IF getConversation(id, userId) = <<>>
                THEN response("messages", userId, id, "500", <<"Failed to fetch messages">>, FALSE)
                ELSE response("messages", userId, id, "200", selectMessages(id), FALSE)
    /\ UNCHANGED <<routeVars, titleVars, sent, storeVars, pipeVars, clients, gone>>

CrudNext ==
    \/ \E r \in CrudRunIds, u \in Users, c \in ConversationIds, b \in Bodies : Submit(r, u, c, b)
    \/ \E r \in CrudRunIds : GetConversationReturns(r)
    \/ \E r \in CrudRunIds : AddUserMessageReturns(r)
    \/ \E r \in CrudRunIds : GetConversationMessagesReturns(r)
    \/ \E r \in CrudRunIds, o \in ProviderOutcomes : ProviderAnswers(r, o)
    \/ \E r \in CrudRunIds : AddAiMessageExecutes(r)
    \/ \E r \in CrudRunIds : AiMessageAddedContinues(r)
    \/ \E r \in CrudRunIds, o \in TitleOutcomes : TitleProviderAnswers(r, o)
    \/ \E r \in CrudRunIds : UpdateConversationReturns(r)
    \/ \E u \in Users, t \in TitleBodies : CreateConversation(u, t)
    \/ \E u \in Users, c \in ConversationIds, t \in TitleBodies : PatchConversation(u, c, t)
    \/ \E u \in Users, c \in ConversationIds : DeleteConversation(u, c)
    \/ \E u \in Users, c \in ConversationIds : GetConversation(u, c)
    \/ \E u \in Users, c \in ConversationIds : GetMessages(u, c)

SpecCrud == Init /\ [][CrudNext]_vars

----------------------------------------------------------------------------
(* The realtime hub's specification: connections come and go and send      *)
(* frames.  The payload (data) of a frame is left out.  Client ids are     *)
(* taken to be distinct (generateClientId draws them at random): the id of *)
(* a connection that is gone is not given out again.                       *)

\* the frames a client may send, parsed: with and without userId and
\* conversationId, of type typing and of another type
Frames ==
    [type : {"typing", "message"}, userId : {"", "u1"}, conversationId : {"", "c1", "c2"}]

\* what a handler of the hub sent: the frame (its type, and its userId and
\* conversationId fields when it has them) and the clients it went to
sending(from, type, userId, conversationId, to) ==
    IF to = {} THEN <<>>
    ELSE <<[from |-> from, type |-> type, userId |-> userId,
            conversationId |-> conversationId, to |-> to]>>

\* a variant of the registry's delete that keeps the entry
unregisterKept(clientId) == clients

\* this.clients.delete(clientId)
unregister(clientId) == [k \in DOMAIN clients \ {clientId} |-> clients[k]]

\* sendToClient: the client itself, if it is registered and open
sendToClient(clientId) ==
    {k \in DOMAIN clients : k = clientId /\ clients[k].open}

\* a variant that registers the client and sends it nothing
handleConnectionSilent(clientId) ==
    /\ clientId \notin DOMAIN clients \cup DOMAIN gone
    /\ clients' = [k \in DOMAIN clients \cup {clientId} |->
                      IF k = clientId
                      THEN [open |-> TRUE, userId |-> "", conversationId |-> ""]
                      ELSE clients[k]]
    /\ sent' = <<>>
    /\ UNCHANGED <<routeVars, titleVars, reply, storeVars, pipeVars, gone>>

\* wss.on('connection'): the client is registered without a user or a
\* conversation and is sent the connection frame
handleConnection(clientId) ==
    /\ clientId \notin DOMAIN clients \cup DOMAIN gone
    /\ clients' = [k \in DOMAIN clients \cup {clientId} |->
                      IF k = clientId
                      THEN [open |-> TRUE, userId |-> "", conversationId |-> ""]
                      ELSE clients[k]]
    /\ sent' = sending("", "connection", "", <<>>, sendToClient(clientId)')
    /\ UNCHANGED <<routeVars, titleVars, reply, storeVars, pipeVars, gone>>

\* ws.on('message') with data that JSON.parse rejects: the catch block sends
\* an error frame to the sender
OnInvalidMessage(clientId) ==
    /\ sent' = sending("", "error", "", <<>>, sendToClient(clientId))
    /\ UNCHANGED <<routeVars, titleVars, reply, storeVars, pipeVars, clients, gone>>

\* notifyNewMessage(conversationId, messageData), as the POST handler calls
\* it: {type: 'message', conversationId, data} to the conversation's clients
notifyNewMessage(conversationId) ==
    /\ sent' = sending("", "message", "", <<conversationId>>,
                       broadcastToConversation(conversationId, ""))
    /\ UNCHANGED <<routeVars, titleVars, reply, storeVars, pipeVars, clients, gone>>

\* a variant that takes a typing frame as it comes, fields missing or not
handleMessageUnchecked(clientId, message) ==
    /\ IF /\ clientId \in DOMAIN clients
          /\ message.type = "typing"
       THEN /\ clients' = [clients EXCEPT ![clientId].userId = message.userId,
                                          ![clientId].conversationId = message.conversationId]
            /\ sent' = sending(clientId, "typing", message.userId, <<>>,
                               broadcastToConversation(message.conversationId, clientId)')
       ELSE /\ sent' = <<>>
            /\ UNCHANGED clients
    /\ UNCHANGED <<routeVars, titleVars, reply, storeVars, pipeVars, gone>>

\* a variant that keeps the conversation a client was first associated with
handleMessageFirstOnly(clientId, message) ==
    /\ IF /\ clientId \in DOMAIN clients
          /\ message.type = "typing"
          /\ message.userId # "" /\ message.conversationId # ""
       THEN /\ clients' = [clients EXCEPT ![clientId].userId = message.userId,
                                          ![clientId].conversationId =
                                              IF @ = "" THEN message.conversationId ELSE @]
            /\ sent' = sending(clientId, "typing", message.userId, <<>>,
                               broadcastToConversation(message.conversationId, clientId)')
       ELSE /\ sent' = <<>>
            /\ UNCHANGED clients
    /\ UNCHANGED <<routeVars, titleVars, reply, storeVars, pipeVars, gone>>

\* ws.on('message') with a frame that parses: a typing frame with userId and
\* conversationId updates the sender's entry and {type: 'typing', userId,
\* data} is broadcast to the conversation's other clients; anything else is
\* dropped
handleMessage(clientId, message) ==
    /\ IF /\ clientId \in DOMAIN clients
          /\ message.type = "typing"
          /\ message.userId # "" /\ message.conversationId # ""
       THEN /\ clients' = [clients EXCEPT ![clientId].userId = message.userId,
                                          ![clientId].conversationId = message.conversationId]
            /\ sent' = sending(clientId, "typing", message.userId, <<>>,
                               broadcastToConversation(message.conversationId, clientId)')
       ELSE /\ sent' = <<>>
            /\ UNCHANGED clients
    /\ UNCHANGED <<routeVars, titleVars, reply, storeVars, pipeVars, gone>>

\* the socket's readyState leaves OPEN
SocketCloses(clientId) ==
    /\ clientId \in DOMAIN clients
    /\ clients[clientId].open
    /\ clients' = [clients EXCEPT ![clientId].open = FALSE]
    /\ UNCHANGED <<routeVars, titleVars, reply, sent, storeVars, pipeVars, gone>>

\* ws.on('close'): the closed socket's entry is deleted
OnClose(clientId) ==
    /\ clientId \in DOMAIN clients
    /\ ~clients[clientId].open
    /\ clients' = unregister(clientId)
    /\ gone' = [k \in DOMAIN gone \cup {clientId} |->
                   IF k = clientId THEN clients[k].conversationId ELSE gone[k]]
    /\ sent' = <<>>
    /\ UNCHANGED <<routeVars, titleVars, reply, storeVars, pipeVars>>

\* ws.on('error'): the entry is deleted, whatever the socket's state
OnError(clientId) ==
    /\ clientId \in DOMAIN clients
    /\ clients' = unregister(clientId)
    /\ gone' = [k \in DOMAIN gone \cup {clientId} |->
                   IF k = clientId THEN clients[k].conversationId ELSE gone[k]]
    /\ sent' = <<>>
    /\ UNCHANGED <<routeVars, titleVars, reply, storeVars, pipeVars>>

HubInit ==
    /\ clients = NoClients
    /\ sent = <<>>
    /\ gone = NoneGone
    /\ routeIn = <<>>
    /\ routeOut = <<>>
    /\ titleIn = <<>>
    /\ titleOut = <<>>
    /\ reply = <<>>
    /\ messages = {}
    /\ conversations = InitConversations
    /\ now = 0
    /\ nextId = 1
    /\ runs = [r \in RunIds |-> IdleRun]
    /\ broadcasts = <<>>

HubNext ==
    \/ \E k \in ClientIds : handleConnection(k)
    \/ \E k \in ClientIds, m \in Frames : handleMessage(k, m)
    \/ \E k \in ClientIds : SocketCloses(k)
    \/ \E k \in ClientIds : OnClose(k)
    \/ \E k \in ClientIds : OnError(k)
    \/ \E k \in ClientIds : OnInvalidMessage(k)
    \/ \E c \in {"c1", "c2"} : notifyNewMessage(c)

SpecHub == HubInit /\ [][HubNext]_vars

\* the hub with three connections already registered, two of them open and
\* associated with c1: every later association is a change of association
HubJoinedInit ==
    /\ clients = InitClients
    /\ sent = <<>>
    /\ gone = NoneGone
    /\ routeIn = <<>>
    /\ routeOut = <<>>
    /\ titleIn = <<>>
    /\ titleOut = <<>>
    /\ reply = <<>>
    /\ messages = {}
    /\ conversations = InitConversations
    /\ now = 0
    /\ nextId = 1
    /\ runs = [r \in RunIds |-> IdleRun]
    /\ broadcasts = <<>>

HubJoinedNext ==
    \/ \E k \in ClientIds, m \in Frames : handleMessage(k, m)
    \/ \E k \in ClientIds : SocketCloses(k)
    \/ \E k \in ClientIds : OnClose(k)
    \/ \E k \in ClientIds : OnError(k)
    \/ \E k \in ClientIds : OnInvalidMessage(k)
    \/ \E c \in {"c1", "c2"} : notifyNewMessage(c)

SpecHubJoined == HubJoinedInit /\ [][HubJoinedNext]_vars

\* the hub while its connections stay open: registrations and parsed frames
HubFramesNext ==
    \/ \E k \in ClientIds : handleConnection(k)
    \/ \E k \in ClientIds, m \in Frames : handleMessage(k, m)

SpecHubFrames == HubInit /\ [][HubFramesNext]_vars

----------------------------------------------------------------------------
(* The router's specification: getModelAndPrompt applied to raw messages *)

toUpperChar(ch) ==
    IF \E i \in 1..Len(LowerCase) : LowerCase[i] = ch
    THEN UpperCase[CHOOSE i \in 1..Len(LowerCase) : LowerCase[i] = ch]
    ELSE ch

Prefixes == {modelRouting[i].prefix : i \in 1..Len(modelRouting)}

\* how a raw message may begin: a prefix as configured, in capitals, with a
\* capital initial, after a blank, without its colon; nothing; another word
RouteHeads ==
    {p : p \in Prefixes}
    \cup {[i \in 1..Len(p) |-> toUpperChar(p[i])] : p \in Prefixes}
    \cup {<<toUpperChar(p[1])>> \o Tail(p) : p \in Prefixes}
    \cup {<<" ">> \o p : p \in Prefixes}
    \cup {SubSeq(p, 1, Len(p) - 1) : p \in Prefixes}
    \cup {<<>>, <<"h","e","l","l","o">>}

\* how it may go on
RouteTails ==
    { <<>>, <<"X">>, <<" ","H","i"," ">>, <<" "," ">>,
      <<"\t","c","o","d","e",":"," ","Y","\n">> }

RouteInputs == {h \o t : h \in RouteHeads, t \in RouteTails}

RouteInit ==
    /\ routeIn \in RouteInputs
    /\ routeOut = <<>>
    /\ messages = {}
    /\ conversations = InitConversations
    /\ now = 0
    /\ nextId = 1
    /\ runs = [r \in RunIds |-> IdleRun]
    /\ broadcasts = <<>>
    /\ clients = InitClients
    /\ titleIn = <<>>
    /\ titleOut = <<>>
    /\ reply = <<>>
    /\ sent = <<>>
    /\ gone = NoneGone

\* the router is applied to the message
Route ==
    /\ routeOut = <<>>
    /\ routeOut' = <<getModelAndPrompt(routeIn)>>
    /\ UNCHANGED <<routeIn, titleVars, reply, sent, storeVars, pipeVars, clients, gone>>

\* another message is taken up
RouteNext(m) ==
    /\ routeOut # <<>>
    /\ routeIn' = m
    /\ routeOut' = <<>>
    /\ UNCHANGED <<titleVars, reply, sent, storeVars, pipeVars, clients, gone>>

SpecRoute == RouteInit /\ [][Route \/ \E m \in RouteInputs : RouteNext(m)]_vars


----------------------------------------------------------------------------
(* The title summarizer's specification: generateTitle applied to exchanges *)

\* what the provider may answer to a title request: the answers of
\* TitleOutcomes, an empty string, a text with nothing to trim, and a text
\* between tabs and line ends
TitleResults ==
    TitleOutcomes
    \cup { [kind |-> "content", content |-> <<>>],
           [kind |-> "content", content |-> Hi],
           [kind |-> "content", content |-> <<"\t","A"," ","b","\n">>] }

\* the message lists handed to generateTitle: the exchange the handler
\* builds from the user's content and the assistant's, and lists without a
\* user message
TitleExchanges ==
    { <<chatMessage("user", u), chatMessage("assistant", a)>> :
        u \in {<<>>, Blank, Hi, CodeHi}, a \in {<<>>, Ok} }
    \cup { <<>>, <<chatMessage("assistant", Ok)>> }

TitleInputs == [msgs : TitleExchanges, outcome : TitleResults]

TitleInit ==
    /\ titleIn \in TitleInputs
    /\ titleOut = <<>>
    /\ routeIn = <<>>
    /\ routeOut = <<>>
    /\ messages = {}
    /\ conversations = InitConversations
    /\ now = 0
    /\ nextId = 1
    /\ runs = [r \in RunIds |-> IdleRun]
    /\ broadcasts = <<>>
    /\ clients = InitClients
    /\ reply = <<>>
    /\ sent = <<>>
    /\ gone = NoneGone

\* generateTitle is called and returns
Summarize ==
    /\ titleOut = <<>>
    /\ titleOut' = <<generateTitle(titleIn.msgs, titleIn.outcome)>>
    /\ UNCHANGED <<titleIn, routeVars, reply, sent, storeVars, pipeVars, clients, gone>>

\* another exchange is taken up
TitleNext(m) ==
    /\ titleOut # <<>>
    /\ titleIn' = m
    /\ titleOut' = <<>>
    /\ UNCHANGED <<routeVars, reply, sent, storeVars, pipeVars, clients, gone>>

SpecTitle == TitleInit /\ [][Summarize \/ \E m \in TitleInputs : TitleNext(m)]_vars

----------------------------------------------------------------------------
(* Vocabulary of the properties *)

Started(r) == runs[r].pc # "idle"
Finished(r) == runs[r].pc = "done"

\* NotFound: the conversation is missing or not owned by the caller
NotFoundCase(r) ==
    \/ runs[r].conversationId \notin DOMAIN conversations
    \/ conversations[runs[r].conversationId].userId # runs[r].userId

\* ValidationFailed: the content is empty or not a string
InvalidCase(r) == runs[r].body.kind # "string" \/ Len(runs[r].body.text) = 0

\* between the history read and the persistence of the assistant message
Generating(r) == runs[r].pc \in {"generating", "addAiMessage"}

\* r2 arrived while r1 was in flight
Concurrent(r1, r2) == r1 \in runs[r2].inflight

\* the rows of the log a run read that went into the history it sent
HistoryRows(r) ==
    LET others == SelectSeq(runs[r].messages,
                            LAMBDA m : m.id # runs[r].userMessage[1].id)
    IN  SubSeq(others, IF Len(others) > 10 THEN Len(others) - 9 ELSE 1, Len(others))

\* the history part of the request a run sent: what lies between the
\* optional system message and the current turn
HistorySent(r) ==
    LET ms == runs[r].request[1].messages
        from == IF ms[1].role = "system" THEN 2 ELSE 1
    IN  SubSeq(ms, from, Len(ms) - 1)

RoleAndContent(rows) ==
    [i \in 1..Len(rows) |-> [role |-> rows[i].role, content |-> rows[i].content]]

\* the rows a run has persisted
PersistedBy(r) ==
    {m \in messages : \/ runs[r].userMessage # <<>> /\ m.id = runs[r].userMessage[1].id
                      \/ runs[r].aiMessage # <<>> /\ m.id = runs[r].aiMessage[1].id}

\* the rows written since the initial state, by role
Written(role) == {m \in messages : m.role = role /\ m \notin {PreloadedRow(i) : i \in 1..PreloadLen}}

BroadcastFor(r) ==
    \E i \in 1..Len(broadcasts) :
        /\ runs[r].userMessage # <<>>
        /\ broadcasts[i].data[1].id = runs[r].userMessage[1].id

----------------------------------------------------------------------------
(* Properties *)

\* C1: in every reachable state, for each conversation at most one submission
\* is between its history read and the persistence of its assistant message.
C1_OneGenerationPerConversation ==
    \A r1, r2 \in RunIds :
        (r1 # r2 /\ Generating(r1) /\ Generating(r2))
            => runs[r1].conversationId # runs[r2].conversationId

\* C2: of two submissions issued concurrently to the same conversation that
\* both succeed, the later-arriving one passes the provider a history that
\* contains the assistant message of the earlier-arriving one.
C2_LaterHistoryHasEarlierReply ==
    \A r1, r2 \in RunIds :
        ( /\ r1 < r2 /\ Concurrent(r1, r2)
          /\ runs[r1].conversationId = runs[r2].conversationId
          /\ Finished(r1) /\ runs[r1].status = "200"
          /\ Finished(r2) /\ runs[r2].status = "200" )
        => \E i \in 1..Len(HistoryRows(r2)) :
               HistoryRows(r2)[i].id = runs[r1].aiMessage[1].id

\* C3: if S1 arrives before S2 at the same conversation, every message S1
\* persisted precedes every message S2 persisted in the conversation's log.
C3_PersistenceOrderedByArrival ==
    \A r1, r2 \in RunIds :
        (r1 < r2 /\ Started(r2) /\ runs[r1].conversationId = runs[r2].conversationId)
        => LET log == selectMessages(runs[r1].conversationId) IN
           \A i, j \in 1..Len(log) :
               (log[i] \in PersistedBy(r1) /\ log[j] \in PersistedBy(r2)) => i < j

\* C4: when the completion gateway fails for a submission, its user message
\* is in the log, it writes no assistant message, no broadcast is issued for
\* it, and the caller receives an error result.
C4_ProviderFailure ==
    /\ \A r \in RunIds :
          runs[r].answer = "error"
          => /\ Finished(r) /\ runs[r].status = "500"
             /\ runs[r].json = <<"Failed to send message">>
             /\ \E m \in messages : /\ m.id = runs[r].userMessage[1].id
                                    /\ m.role = "user"
                                    /\ m.conversationId = runs[r].conversationId
             /\ runs[r].aiMessage = <<>> /\ runs[r].values = <<>>
             /\ ~BroadcastFor(r)
    /\ Cardinality(Written("assistant"))
          = Cardinality({r \in RunIds : runs[r].answer \in {"null", "content"}
                                        /\ runs[r].pc # "addAiMessage"})
    /\ Len(broadcasts) = Cardinality({r \in RunIds : runs[r].status = "200"})

C4_Witness ==
    \E r, q \in RunIds :
        /\ runs[r].answer = "error" /\ Finished(r)
        /\ runs[q].answer = "content" /\ Finished(q)
        /\ runs[q].conversationId = runs[r].conversationId

\* C5: a submission that meets NotFound (conversation missing or not the
\* caller's) or ValidationFailed (content empty or not a string) is answered
\* 404 or 400 and leaves the message log, the conversation record and the hub
\* registry unchanged, with no provider call and no broadcast; every row,
\* title change and broadcast is accounted for by the other submissions.
C5_RejectedLeavesNoTrace ==
    /\ \A r \in RunIds :
          (Started(r) /\ (NotFoundCase(r) \/ InvalidCase(r)))
          => /\ runs[r].pc \in {"getConversation", "done"}
             /\ Finished(r) => runs[r].status = IF NotFoundCase(r) THEN "404" ELSE "400"
             /\ runs[r].values = <<>> /\ runs[r].userMessage = <<>>
             /\ runs[r].request = <<>> /\ runs[r].titleRequest = <<>>
             /\ runs[r].aiMessage = <<>> /\ runs[r].title = <<>>
    /\ \A r \in RunIds :
          runs[r].status \in {"404", "400"} => (NotFoundCase(r) \/ InvalidCase(r))
    /\ Cardinality(Written("user")) + Cardinality(Written("assistant"))
          = Cardinality({r \in RunIds : runs[r].userMessage # <<>>})
            + Cardinality({r \in RunIds : runs[r].aiMessage # <<>>})
    /\ Len(broadcasts) = Cardinality({r \in RunIds : runs[r].status = "200"})
    /\ \A c \in DOMAIN conversations :
          conversations[c] # InitConversations[c]
          => \E r \in RunIds : /\ runs[r].conversationId = c /\ runs[r].status = "200"
                               /\ runs[r].title = <<conversations[c].title>>
    /\ DOMAIN conversations = DOMAIN InitConversations
    /\ clients = InitClients

C5_Witness ==
    \E r, q \in RunIds :
        /\ runs[r].status = "400"
        /\ runs[q].status = "404"
        /\ messages = {PreloadedRow(i) : i \in 1..PreloadLen}

\* C6: every submission that passes the NotFound and validation checks
\* appends exactly one user message whose content is the raw submitted string
\* (routing prefix included, untrimmed), and the message stays in the log
\* whatever becomes of routing and generation.
C6_UserMessagePersistedRaw ==
    /\ \A r \in RunIds :
          (Started(r) /\ ~NotFoundCase(r) /\ ~InvalidCase(r)
             /\ runs[r].pc \notin {"getConversation", "addUserMessage"})
          => \E m \in messages :
                /\ runs[r].userMessage = <<m>>
                /\ m.role = "user"
                /\ m.conversationId = runs[r].conversationId
                /\ m.content = runs[r].body.text
    /\ \A r1, r2 \in RunIds :
          (r1 # r2 /\ runs[r1].userMessage # <<>> /\ runs[r2].userMessage # <<>>)
          => runs[r1].userMessage[1].id # runs[r2].userMessage[1].id
    /\ Cardinality(Written("user"))
          = Cardinality({r \in RunIds : Started(r) /\ ~NotFoundCase(r) /\ ~InvalidCase(r)
                            /\ runs[r].pc \notin {"getConversation", "addUserMessage"}})

C6_Witness ==
    \E r \in RunIds :
        /\ Finished(r) /\ runs[r].status = "500"
        /\ runs[r].body.text = CodeHi
        /\ runs[r].userMessage[1] \in messages

\* C7: the history passed to the provider is exactly the last min(10, n)
\* entries, oldest first, of the conversation's log as it stood before the
\* submission's user message was appended; it never holds the submission's
\* own user message and never more than 10 entries.
C7_HistoryIsLogBefore ==
    \A r \in RunIds :
        runs[r].request # <<>>
        => LET before == runs[r].logBefore
               n == Len(before)
               k == IF n < 10 THEN n ELSE 10
           IN  /\ HistorySent(r) = RoleAndContent(SubSeq(before, n - k + 1, n))
               /\ HistorySent(r) = RoleAndContent(HistoryRows(r))
               /\ Len(HistorySent(r)) <= 10
               /\ \A i \in 1..Len(HistoryRows(r)) :
                      HistoryRows(r)[i].id # runs[r].userMessage[1].id


\* C8: if the lower-cased message starts with a configured prefix p, the
\* router returns p's model and system prompt and the message without its
\* first len(p) characters, trimmed, in its original casing; otherwise (the
\* empty string and a prefix after whitespace included) it returns the
\* default model, no system prompt and the message unchanged.
C8_Router ==
    routeOut # <<>> =>
    LET m == routeIn
        out == routeOut[1]
        SameLetter(a, b) ==
            \/ a = b /\ ~\E i \in 1..Len(UpperCase) : UpperCase[i] = a
            \/ \E i \in 1..Len(UpperCase) : UpperCase[i] = a /\ LowerCase[i] = b
        StartsIgnoringCase(p) ==
            Len(p) <= Len(m) /\ \A i \in 1..Len(p) : SameLetter(m[i], p[i])
        IsTrimOf(t, str) ==
            \E a, b \in 0..Len(str) :
                /\ a + b <= Len(str)
                /\ t = SubSeq(str, a + 1, Len(str) - b)
                /\ \A i \in 1..a : str[i] \in WhiteSpace
                /\ \A i \in (Len(str) - b + 1)..Len(str) : str[i] \in WhiteSpace
                /\ t # <<>> => (t[1] \notin WhiteSpace /\ t[Len(t)] \notin WhiteSpace)
        hits == {i \in 1..Len(modelRouting) : StartsIgnoringCase(modelRouting[i].prefix)}
    IN  IF hits # {}
        THEN \E i \in hits :
                /\ \A j \in hits : i <= j
                /\ out.model = modelRouting[i].model
                /\ out.systemPrompt = modelRouting[i].systemPrompt
                /\ IsTrimOf(out.cleanedMessage,
                            SubSeq(m, Len(modelRouting[i].prefix) + 1, Len(m)))
        ELSE /\ out.model = Gpt4o
             /\ out.systemPrompt = <<>>
             /\ out.cleanedMessage = m

C8_Witness ==
    /\ routeIn = <<"C","O","D","E",":"," ","H","i"," ">>
    /\ routeOut # <<>>
    /\ routeOut[1].cleanedMessage = <<"H","i">>
    /\ routeOut[1].systemPrompt = <<"expert software developer">>

\* C9 as stated: a run that has read the log calls title generation and
\* writes the title if and only if that log had length exactly 1.
C9_TitleIffFirstRead ==
    \A r \in RunIds :
        (Finished(r) /\ runs[r].request # <<>>)
        => ((runs[r].titleRequest # <<>> /\ runs[r].title # <<>>)
               <=> Len(runs[r].messages) = 1)

\* C9 as amended: a run that has persisted its assistant message calls title
\* generation and writes the title if and only if the log it read right after
\* persisting its user message had length exactly 1; a run that read another
\* length, or whose generation failed, never calls title generation and never
\* changes the title.
C9_TitleIffFirstReadAndReplied ==
    /\ \A r \in RunIds :
          ( \/ runs[r].titleRequest # <<>> \/ runs[r].title # <<>>
            \/ runs[r].pc \in {"generatingTitle", "updateConversation"} )
          => /\ Len(runs[r].messages) = 1
             /\ runs[r].aiMessage # <<>>
             /\ runs[r].aiMessage[1] \in messages
    /\ \A r \in RunIds :
          (Finished(r) /\ runs[r].status = "200")
          => ((runs[r].titleRequest # <<>> /\ runs[r].title # <<>>)
                 <=> Len(runs[r].messages) = 1)
    /\ \A c \in DOMAIN conversations :
          conversations[c].title # InitConversations[c].title
          => \E r \in RunIds : /\ runs[r].conversationId = c
                               /\ Len(runs[r].messages) = 1
                               /\ Finished(r) /\ runs[r].status = "200"
                               /\ runs[r].title = <<conversations[c].title>>

C9_Witness ==
    \E r, q \in RunIds :
        /\ Finished(r) /\ runs[r].status = "200"
        /\ Len(runs[r].messages) = 1 /\ runs[r].title = <<trim(TitleText)>>
        /\ conversations[runs[r].conversationId].title = trim(TitleText)
        /\ Finished(q) /\ runs[q].status = "200"
        /\ runs[q].conversationId = runs[r].conversationId
        /\ Len(runs[q].messages) = 3 /\ runs[q].title = <<>>

\* C10: when a submission to a conversation with an empty message log
\* completes successfully, and more generally once a run that persisted the
\* conversation's first assistant message is done, the conversation's title
\* has been overwritten by the title-generation step.
C10_TitleOverwritten ==
    \A r \in RunIds :
        ( /\ Finished(r) /\ runs[r].status = "200"
          /\ \/ runs[r].logBefore = <<>>
             \/ \A m \in messages :
                   (m.conversationId = runs[r].conversationId /\ m.role = "assistant")
                   => runs[r].aiMessage[1].createdAt <= m.createdAt )
        => \E q \in RunIds : /\ runs[q].conversationId = runs[r].conversationId
                             /\ Finished(q) /\ runs[q].title # <<>>

\* the rest of C10's statement: the title written by the title-generation
\* step differs from the placeholder the conversation was created with
TitleDiffersFromPlaceholder ==
    \A r \in RunIds :
        (Finished(r) /\ runs[r].title # <<>>)
        => runs[r].title[1] # InitConversations[runs[r].conversationId].title


C12_TitleFallback ==
    titleOut # <<>> =>
        LET msgs == titleIn.msgs
            outcome == titleIn.outcome
            noUserContent ==
                \A i \in 1..Len(msgs) : msgs[i].role = "user" => msgs[i].content = <<>>
            blankResult ==
                \A i \in 1..Len(outcome.content) : outcome.content[i] \in WhiteSpace
        IN  titleOut[1] = IF outcome.kind # "content" \/ blankResult \/ noUserContent
                          THEN NewConversation
                          ELSE trim(outcome.content)

C12_Witness ==
    /\ titleOut = <<<<"H","i">>>>
    /\ titleIn.outcome.content = TitleText
    /\ titleIn.msgs[1].content = Blank


\* C13: an empty completion returned by the provider is treated as a failed
\* generation: the submission ends in failure and no assistant message with
\* empty content is ever appended to a conversation's log.
C13_EmptyCompletionFails ==
    /\ \A m \in messages : m.role = "assistant" => m.content # <<>>
    /\ \A r \in RunIds :
           (runs[r].answer = "null" /\ Finished(r)) => runs[r].status = "500"

\* C14: after a submission failed in generation, a retry of the same content
\* sends the provider the same history as the failed attempt sent.
C14_RetrySendsSameHistory ==
    \A r1, r2 \in RunIds :
        ( /\ r1 < r2 /\ ~Concurrent(r1, r2)
          /\ runs[r1].answer = "error" /\ Finished(r1)
          /\ runs[r2].userId = runs[r1].userId
          /\ runs[r2].conversationId = runs[r1].conversationId
          /\ runs[r2].body = runs[r1].body
          /\ runs[r2].request # <<>> )
        => HistorySent(r2) = HistorySent(r1)

\* the position of a row in its conversation's log, 0 when it is not there
PositionInLog(row) ==
    LET log == selectMessages(row.conversationId)
        at == {i \in 1..Len(log) : log[i].id = row.id}
    IN  IF at = {} THEN 0 ELSE CHOOSE i \in at : TRUE

\* C15: each assistant message in a conversation's log was written by a
\* submission whose own user message is already in that log and precedes it,
\* and no prefix of a log has more assistant messages than user messages.
C15_AssistantAfterOwnUserMessage ==
    /\ \A m \in Written("assistant") :
           \E r \in RunIds :
               /\ runs[r].aiMessage = <<m>>
               /\ runs[r].userMessage[1] \in messages
               /\ runs[r].userMessage[1].conversationId = m.conversationId
               /\ PositionInLog(runs[r].userMessage[1]) < PositionInLog(m)
    /\ \A c \in DOMAIN conversations :
           LET log == selectMessages(c) IN
           \A n \in 0..Len(log) :
               Cardinality({i \in 1..n : log[i].role = "assistant"})
                   <= Cardinality({i \in 1..n : log[i].role = "user"})

C15_Witness ==
    \E r1, r2 \in RunIds :
        /\ r1 # r2 /\ Concurrent(r1, r2)
        /\ runs[r1].conversationId = runs[r2].conversationId
        /\ runs[r1].aiMessage # <<>> /\ runs[r2].aiMessage # <<>>
        /\ runs[r1].aiMessage[1] \in messages /\ runs[r2].aiMessage[1] \in messages
        /\ PositionInLog(runs[r2].userMessage[1]) < PositionInLog(runs[r1].aiMessage[1])

\* C16: every persisted assistant message carries the model the router
\* selected for the raw content of the submission that produced it, and every
\* persisted user message has no model.
C16_AssistantCarriesRoutedModel ==
    /\ \A r \in RunIds :
           (runs[r].aiMessage # <<>> /\ runs[r].aiMessage[1] \in messages)
           => /\ runs[r].aiMessage[1].role = "assistant"
              /\ runs[r].aiMessage[1].model = getModelAndPrompt(runs[r].body.text).model
              /\ runs[r].aiMessage[1].model # NoModel
    /\ \A m \in messages :
           /\ m.role = "user" => m.model = NoModel
           /\ m.role = "assistant" =>
                  \/ m \in {PreloadedRow(i) : i \in 1..PreloadLen} /\ m.model = Gpt4o
                  \/ \E r \in RunIds : runs[r].aiMessage = <<m>>

C16_Witness ==
    \E r \in RunIds :
        /\ runs[r].body.text = CodeHi
        /\ runs[r].aiMessage # <<>> /\ runs[r].aiMessage[1] \in messages
        /\ runs[r].userMessage[1] \in messages


\* C17: in every reachable state every conversation's title is a non-empty
\* string, after any sequence of creations, submissions, title generations
\* and conversation updates.
C17_TitleNeverEmpty ==
    \A c \in DOMAIN conversations : conversations[c].title # <<>>

\* the insert a run was waiting for has been executed in this step
InsertExecuted(r) ==
    /\ runs[r].pc \in {"addUserMessage", "addAiMessage"}
    /\ runs'[r].pc # runs[r].pc

\* C18: every message is written only while its conversation exists: when the
\* conversation is deleted while a submission is in flight, no later append
\* of that submission succeeds and the submission fails; no message ever
\* references a missing conversation.
C18_WrittenOnlyWhileConversationExists ==
    /\ [](\A m \in messages : m.conversationId \in DOMAIN conversations)
    /\ [][\A r \in CrudRunIds :
             (InsertExecuted(r) /\ runs[r].conversationId \notin DOMAIN conversations)
             => /\ messages' = messages
                /\ runs'[r].pc = "done" /\ runs'[r].status = "500"]_vars

C18_Witness ==
    \E r \in CrudRunIds :
        /\ Finished(r) /\ runs[r].status = "500"
        /\ runs[r].answer = "content"
        /\ runs[r].userMessage # <<>> /\ runs[r].aiMessage = <<>>
        /\ runs[r].conversationId \notin DOMAIN conversations
        /\ runs[r].userMessage[1] \notin messages
        /\ reply # <<>> /\ reply[1].op = "delete" /\ reply[1].status = "204"

\* the user never owns the conversation: it belongs to another user or does
\* not exist (owners do not change and ids are not given out twice)
NeverOwner(userId, conversationId) ==
    \/ conversationId \notin DOMAIN InitConversations
    \/ InitConversations[conversationId].userId # userId

\* C19: a submission, read or update made by a user who is not the
\* conversation's owner yields the same observable result as for a
\* conversation that does not exist, NotFound, and changes nothing in the
\* store.
C19_NonOwnerGetsNotFound ==
    /\ \A r \in CrudRunIds :
           (Finished(r) /\ NeverOwner(runs[r].userId, runs[r].conversationId))
           => /\ runs[r].status = "404"
              /\ runs[r].userMessage = <<>> /\ runs[r].aiMessage = <<>>
    /\ (reply # <<>> /\ reply[1].op # "create"
          /\ NeverOwner(reply[1].userId, reply[1].conversationId))
       => /\ reply[1].status = "404"
          /\ ~reply[1].changed

\* what does hold: the answer to a user who is not the owner does not tell
\* whether the conversation exists, and the store is left as it was
NonOwnerSameAsMissing ==
    /\ \A r \in CrudRunIds :
           (Finished(r) /\ NeverOwner(runs[r].userId, runs[r].conversationId))
           => /\ runs[r].status = "404"
              /\ runs[r].userMessage = <<>> /\ runs[r].aiMessage = <<>>
    /\ (reply # <<>> /\ reply[1].op # "create"
          /\ NeverOwner(reply[1].userId, reply[1].conversationId))
       => /\ ~reply[1].changed
          /\ IF reply[1].op = "messages"
             THEN reply[1].status = "500" /\ reply[1].json = <<"Failed to fetch messages">>
             ELSE reply[1].status = "404" /\ reply[1].json = <<"Conversation not found">>


\* C20: a typing frame carrying userId and conversationId C sent by client A
\* is delivered to every other registered open client whose current
\* conversationId is C and is never delivered back to A, whatever A's own
\* association is.
C20_TypingReachesOthersOnly ==
    [][\A A \in ClientIds, m \in Frames :
          ( /\ handleMessage(A, m)
            /\ A \in DOMAIN clients
            /\ m.type = "typing" /\ m.userId # "" /\ m.conversationId # "" )
          => LET others == {B \in DOMAIN clients \ {A} :
                               clients[B].open /\ clients[B].conversationId = m.conversationId}
             IN  /\ clients'[A].conversationId = m.conversationId
                 /\ IF others = {} THEN sent' = <<>>
                    ELSE /\ Len(sent') = 1
                         /\ sent'[1].type = "typing" /\ sent'[1].from = A
                         /\ sent'[1].to = others
                         /\ A \notin sent'[1].to]_vars

C20_Witness ==
    /\ sent # <<>>
    /\ sent[1].type = "typing"
    /\ sent[1].from \in DOMAIN clients
    /\ clients[sent[1].from].open
    /\ sent[1].from \notin sent[1].to
    /\ \A B \in sent[1].to :
           B \in DOMAIN clients /\ clients[B].conversationId = clients[sent[1].from].conversationId
    /\ \E B \in DOMAIN clients \ sent[1].to :
           B # sent[1].from /\ ~clients[B].open
              /\ clients[B].conversationId = clients[sent[1].from].conversationId


\* the registered open clients whose current conversationId is c
Watchers(c) ==
    {k \in DOMAIN clients : clients[k].open /\ clients[k].conversationId = c}

\* C21: a message broadcast for conversation C is delivered to exactly the
\* registered open clients whose current conversationId equals C, with no
\* client excluded; clients associated with another conversation or with
\* none receive nothing.
C21_MessageReachesExactlyWatchers ==
    [][\A c \in {"c1", "c2"} :
          notifyNewMessage(c)
          => IF Watchers(c) = {} THEN sent' = <<>>
             ELSE /\ Len(sent') = 1
                  /\ sent'[1].type = "message"
                  /\ sent'[1].to = Watchers(c)]_vars

C21_Witness ==
    /\ sent # <<>>
    /\ sent[1].type = "message"
    /\ Cardinality(sent[1].to) = 2
    /\ \A k \in sent[1].to :
           k \in DOMAIN clients /\ <<clients[k].conversationId>> = sent[1].conversationId
    /\ \E k \in DOMAIN clients \ sent[1].to :
           clients[k].open /\ <<clients[k].conversationId>> # sent[1].conversationId

\* a frame that does not have the expected shape
Malformed(m) == m.type # "typing" \/ m.userId = "" \/ m.conversationId = ""

\* one error frame goes back to A, which stays open and registered
ErrorBack(A) ==
    /\ Len(sent') = 1
    /\ sent'[1].type = "error" /\ sent'[1].to = {A}
    /\ A \in DOMAIN clients' /\ clients'[A].open

\* C22: every inbound frame that does not have the expected shape
\* (unparseable text, an unrecognized type, a typing frame missing userId or
\* conversationId) causes exactly one error frame to be sent back to the
\* sender, and the sender's connection stays open and registered.
C22_MalformedFrameAnswered ==
    [][\A A \in ClientIds :
          (A \in DOMAIN clients /\ clients[A].open)
          => /\ OnInvalidMessage(A) => ErrorBack(A)
             /\ \A m \in Frames :
                    (Malformed(m) /\ handleMessage(A, m)) => ErrorBack(A)]_vars

\* C23: no frame is ever sent on a connection that is not open: a send or a
\* broadcast that reaches a registered client whose connection is not open
\* sends nothing to it and does not stop delivery to the other matching
\* clients.
C23_NothingSentUnlessOpen ==
    [][/\ (\E k \in ClientIds : SocketCloses(k))
          \/ sent' = <<>>
          \/ \A k \in sent'[1].to : k \in DOMAIN clients' /\ clients'[k].open
       /\ \A c \in {"c1", "c2"} :
              (notifyNewMessage(c) /\ Watchers(c) # {})
              => sent' # <<>> /\ Watchers(c) \subseteq sent'[1].to]_vars

C23_Witness ==
    /\ sent # <<>>
    /\ sent[1].type = "message"
    /\ \E k \in sent[1].to : k \in DOMAIN clients /\ clients[k].open
    /\ \E k \in DOMAIN clients \ sent[1].to :
           ~clients[k].open /\ <<clients[k].conversationId>> = sent[1].conversationId

\* C24: every outbound typing frame and every outbound message frame carries
\* the conversationId of the conversation it concerns.
C24_FramesCarryConversationId ==
    [][/\ \A c \in {"c1", "c2"} :
              (notifyNewMessage(c) /\ sent' # <<>>) => sent'[1].conversationId = <<c>>
       /\ \A A \in DOMAIN clients, m \in Frames :
              (~Malformed(m) /\ handleMessage(A, m) /\ sent' # <<>>)
              => sent'[1].conversationId = <<m.conversationId>>]_vars


\* C30: once a client's connection has closed or errored, its registry entry
\* is removed, and from then on no typing or message frame is sent to it and
\* frames attributed to it are ignored, whatever the hub does later.
C30_GoneClientsAreOut ==
    /\ [](\A k \in DOMAIN gone : k \notin DOMAIN clients)
    /\ [][\A k \in DOMAIN gone :
             /\ k \notin DOMAIN clients'
             /\ sent' # <<>> => k \notin sent'[1].to
             /\ \A m \in Frames :
                    handleMessage(k, m) => (clients' = clients /\ sent' = <<>>)]_vars

C30_Witness ==
    \E k \in DOMAIN gone :
        /\ gone[k] # ""
        /\ sent # <<>>
        /\ sent[1].type = "message"
        /\ sent[1].conversationId = <<gone[k]>>
        /\ k \notin sent[1].to


\* C25: submissions to different conversations are independent: a submission
\* to conversation A never reads or changes the message log or the title of
\* another conversation B, and it can go on to completion while a generation
\* for B is in flight.
C25_ConversationsIndependent ==
    /\ [](\A r \in RunIds :
            /\ \A i \in 1..Len(runs[r].messages) :
                   runs[r].messages[i].conversationId = runs[r].conversationId
            /\ \A m \in PersistedBy(r) : m.conversationId = runs[r].conversationId
            /\ (Running(r) /\ \E q \in RunIds :
                                 /\ Generating(q)
                                 /\ runs[q].conversationId # runs[r].conversationId)
               => ENABLED RunStep(r))
    /\ [][\A r \in RunIds :
             RunStep(r)
             => \A c \in DOMAIN conversations \ {runs[r].conversationId} :
                    /\ selectMessages(c)' = selectMessages(c)
                    /\ conversations'[c] = conversations[c]]_vars

C25_Witness ==
    \E r, q \in RunIds :
        /\ runs[r].conversationId = "c1" /\ runs[q].conversationId = "c2"
        /\ Concurrent(q, r) \/ Concurrent(r, q)
        /\ Finished(r) /\ runs[r].status = "200"
        /\ conversations["c1"].title = <<"H","i">>
        /\ runs[q].pc = "generating"
        /\ runs[q].inflight = {r}


\* C26: in every reachable state the sequence returned by listMessages for a
\* conversation is non-decreasing in creation timestamp; consecutive messages
\* of the same role are allowed.
C26_LogOrderedByCreation ==
    /\ \A c \in DOMAIN conversations :
           LET log == selectMessages(c) IN
           /\ Len(log) = Cardinality({m \in messages : m.conversationId = c})
           /\ \A i, j \in 1..Len(log) : i < j => log[i].createdAt <= log[j].createdAt
    /\ \A r \in RunIds :
           \A i, j \in 1..Len(runs[r].messages) :
               i < j => runs[r].messages[i].createdAt <= runs[r].messages[j].createdAt

\* two user messages in a row, after a failed and retried generation, in a
\* log whose rows were not inserted in the order of their timestamps
C26_Witness ==
    \E r1, r2 \in RunIds :
        LET log == selectMessages("c1") IN
        /\ runs[r1].answer = "error" /\ Finished(r1)
        /\ runs[r2].conversationId = "c1" /\ runs[r1].conversationId = "c1"
        /\ Len(runs[r2].messages) >= 2
        /\ Len(log) >= 2
        /\ log[1].role = "user" /\ log[2].role = "user"
        /\ log[1].id > log[2].id

\* C27: a message appended to a conversation is returned by a later
\* listMessages of that conversation with the role, content, model and
\* tokenCount it was appended with, after any further appends.
C27_AppendedIsListed ==
    \A r \in RunIds :
        LET log == selectMessages(runs[r].conversationId) IN
        /\ runs[r].userMessage # <<>>
           => \E i \in 1..Len(log) :
                  /\ log[i].id = runs[r].userMessage[1].id
                  /\ log[i].role = "user"
                  /\ log[i].content = runs[r].body.text
                  /\ log[i].model = NoModel
                  /\ log[i].tokenCount = NoTokens
        /\ runs[r].aiMessage # <<>>
           => \E i \in 1..Len(log) :
                  /\ log[i].id = runs[r].aiMessage[1].id
                  /\ log[i].role = "assistant"
                  /\ log[i].content = runs[r].aiResponse[1].content
                  /\ log[i].model = runs[r].aiResponse[1].model
                  /\ log[i].tokenCount = runs[r].aiResponse[1].tokenCount

C27_Witness ==
    \E r, q \in RunIds :
        /\ r # q
        /\ runs[r].conversationId = runs[q].conversationId
        /\ runs[r].body.text = CodeHi
        /\ runs[r].aiMessage # <<>> /\ runs[r].aiResponse[1].tokenCount = 12
        /\ runs[q].aiMessage # <<>>
        /\ runs[q].aiMessage[1].id > runs[r].aiMessage[1].id


\* the order of the handler's steps: from each position, the next ones
StepOrder ==
    { <<"idle", "getConversation">>,
      <<"getConversation", "addUserMessage">>, <<"getConversation", "done">>,
      <<"addUserMessage", "getConversationMessages">>, <<"addUserMessage", "done">>,
      <<"getConversationMessages", "generating">>, <<"getConversationMessages", "done">>,
      <<"generating", "addAiMessage">>, <<"generating", "done">>,
      <<"addAiMessage", "aiMessageAdded">>, <<"addAiMessage", "done">>,
      <<"aiMessageAdded", "generatingTitle">>, <<"aiMessageAdded", "updateConversation">>,
      <<"aiMessageAdded", "done">>,
      <<"generatingTitle", "updateConversation">>,
      <<"updateConversation", "done">> }

\* C28: within one pipeline run the steps occur in the order user message
\* persisted, history read, generation, assistant message persisted, optional
\* title update, broadcast, response; the broadcast for a run is issued only
\* after both of its messages are persisted, and a run that fails issues no
\* broadcast.
C28_StepsInOrder ==
    /\ [](\A r \in RunIds :
            /\ runs[r].request # <<>>
               => /\ runs[r].userMessage # <<>>
                  /\ \E i \in 1..Len(runs[r].messages) :
                         runs[r].messages[i].id = runs[r].userMessage[1].id
            /\ runs[r].answer # "" => runs[r].request # <<>>
            /\ runs[r].aiMessage # <<>>
               => runs[r].answer \in {"null", "content"} /\ runs[r].aiMessage[1] \in messages
            /\ runs[r].title # <<>> => runs[r].aiMessage # <<>>
            /\ BroadcastFor(r)
               => /\ runs[r].userMessage[1] \in messages
                  /\ runs[r].aiMessage # <<>> /\ runs[r].aiMessage[1] \in messages
                  /\ isFirstExchange(runs[r].messages) => runs[r].title # <<>>
                  /\ Finished(r) /\ runs[r].status = "200"
            /\ (Finished(r) /\ runs[r].status = "200") => BroadcastFor(r)
            /\ (Finished(r) /\ runs[r].status # "200") => ~BroadcastFor(r)
            /\ Finished(r) <=> runs[r].status # "")
    /\ [][\A r \in RunIds :
             /\ runs'[r].pc # runs[r].pc => <<runs[r].pc, runs'[r].pc>> \in StepOrder
             /\ BroadcastFor(r) => BroadcastFor(r)']_vars

C28_Witness ==
    \E r, q \in RunIds :
        /\ Finished(r) /\ runs[r].status = "200" /\ runs[r].title # <<>>
        /\ BroadcastFor(r)
        /\ Finished(q) /\ runs[q].status = "500" /\ runs[q].userMessage # <<>>
        /\ Len(broadcasts) = 1


\* C29: every submission eventually reaches Done or Failed and returns a
\* result to the caller, and a slow or failed generation for one submission
\* never keeps a later submission to the same conversation from completing:
\* no step of a run waits for another run.
C29_EverySubmissionCompletes ==
    /\ \A r \in RunIds : Started(r) ~> (Finished(r) /\ runs[r].status # "")
    /\ [](\A r \in RunIds : Running(r) => ENABLED RunStep(r))

C29_Witness ==
    \E r1, r2 \in RunIds :
        /\ runs[r1].conversationId = runs[r2].conversationId
        /\ Concurrent(r1, r2)
        /\ runs[r1].pc = "generating"
        /\ Finished(r2) /\ runs[r2].status = "200"


\* C31: registering a connection adds one registry entry with no
\* conversation association and sends exactly one connection frame on that
\* connection; a client receives no typing or message broadcast while it has
\* no association, and it gets an association only by its own typing frame
\* that carries both userId and conversationId.
C31_RegisteredThenSilentUntilTyping ==
    [][/\ \A k \in ClientIds :
              handleConnection(k)
              => /\ k \notin DOMAIN clients
                 /\ DOMAIN clients' = DOMAIN clients \cup {k}
                 /\ \A j \in DOMAIN clients : clients'[j] = clients[j]
                 /\ clients'[k].conversationId = "" /\ clients'[k].userId = ""
                 /\ Len(sent') = 1
                 /\ sent'[1].type = "connection" /\ sent'[1].to = {k}
       /\ \A k \in DOMAIN clients' :
              ( /\ k \in DOMAIN clients => clients[k].conversationId = ""
                /\ clients'[k].conversationId # "" )
              => \E m \in Frames : ~Malformed(m) /\ handleMessage(k, m)
       /\ (sent' # <<>> /\ sent'[1].type \in {"typing", "message"})
              => \A k \in sent'[1].to :
                     /\ k \in DOMAIN clients /\ clients[k].conversationId # ""
                     /\ clients'[k].conversationId # ""]_vars

C31_Witness ==
    /\ sent # <<>>
    /\ sent[1].type = "message"
    /\ \E k \in DOMAIN clients \ sent[1].to :
           clients[k].open /\ clients[k].conversationId = ""
    /\ \E k \in sent[1].to : clients[k].open


\* C32: a client is associated with at most one conversation at a time, the
\* conversationId of its most recent accepted typing frame: its association
\* changes only by such a frame, which replaces it, and every typing or
\* message broadcast goes to the open clients whose association at that
\* moment is the broadcast's conversation, so a client that moved from C1 to
\* C2 receives the later broadcasts for C2 and none for C1.
C32_LatestTypingFrameDecides ==
    [][/\ \A A \in DOMAIN clients, m \in Frames :
              (~Malformed(m) /\ handleMessage(A, m))
              => /\ clients'[A].conversationId = m.conversationId
                 /\ sent' # <<>>
                        => \A k \in sent'[1].to : clients'[k].conversationId = m.conversationId
       /\ \A k \in DOMAIN clients \cap DOMAIN clients' :
              clients'[k].conversationId # clients[k].conversationId
              => \E m \in Frames : ~Malformed(m) /\ handleMessage(k, m)
       /\ \A c \in {"c1", "c2"} :
              notifyNewMessage(c)
              => \A k \in DOMAIN clients :
                     IF clients[k].open /\ clients[k].conversationId = c
                     THEN sent' # <<>> /\ k \in sent'[1].to
                     ELSE sent' = <<>> \/ k \notin sent'[1].to]_vars

\* k1 moved from c1 to c2 and is open; a message for c1 went to k2 only
C32_Witness ==
    /\ "k1" \in DOMAIN clients
    /\ clients["k1"].open /\ clients["k1"].conversationId = "c2"
    /\ sent # <<>>
    /\ sent[1].type = "message" /\ sent[1].conversationId = <<"c1">>
    /\ sent[1].to = {"k2"}


\* C33: the pipeline never changes the hub's client registry: every step of
\* a submission, its broadcast step included, leaves the set of registered
\* clients and each client's userId and conversationId as they were.
C33_PipelineLeavesRegistry ==
    [][/\ DOMAIN clients' = DOMAIN clients
       /\ \A k \in DOMAIN clients :
              /\ clients'[k].userId = clients[k].userId
              /\ clients'[k].conversationId = clients[k].conversationId]_vars

\* a broadcast has gone to an open client while a closed one is registered
C33_Witness ==
    /\ Len(broadcasts) >= 1
    /\ broadcasts[1].to # {}
    /\ \E k \in DOMAIN clients : ~clients[k].open
    /\ \E r \in RunIds : Finished(r) /\ runs[r].status = "200"


\* C34: the message log is append-only: a step of a submission keeps every
\* row of the messages table as it is (its role, content, model and
\* tokenCount with it) and adds at most one; a row leaves the table only in
\* the deletion of its conversation, together with the conversation's whole
\* log.
C34_LogAppendOnly ==
    [][/\ \A m \in messages :
              \/ m \in messages'
              \/ /\ \E u \in Users : DeleteConversation(u, m.conversationId)
                 /\ m.conversationId \notin DOMAIN conversations'
                 /\ \A x \in messages' : x.conversationId # m.conversationId
       /\ \A m \in messages, x \in messages' : x.id = m.id => x = m
       /\ (\E r \in CrudRunIds : runs'[r] # runs[r])
              => /\ messages \subseteq messages'
                 /\ Cardinality(messages' \ messages) <= 1]_vars

\* c1 was deleted with the user message a submission had appended to it,
\* and the log of c2 is as it was
C34_Witness ==
    /\ reply # <<>> /\ reply[1].op = "delete" /\ reply[1].changed
    /\ "c1" \notin DOMAIN conversations
    /\ \E r \in CrudRunIds :
           /\ runs[r].userMessage # <<>>
           /\ runs[r].userMessage[1] \notin messages
    /\ messages = {PreloadedRow(i) : i \in 1..PreloadLen}


\* the runs on conversation c that have reached the title step
TitleRuns(c) ==
    {r \in RunIds : /\ runs[r].conversationId = c
                    /\ \/ runs[r].pc \in {"generatingTitle", "updateConversation"}
                       \/ runs[r].titleRequest # <<>>
                       \/ runs[r].title # <<>>}

\* C35: for each conversation, across the submissions and every interleaving
\* of them (concurrent first submissions, failures and retries included),
\* the pipeline runs title generation and writes the title at most once.
C35_TitleAtMostOnce ==
    \A c \in ConversationIds : Cardinality(TitleRuns(c)) <= 1

\* two overlapping submissions to one conversation have succeeded, and one
\* of them wrote the title
C35_Witness ==
    \E r, q \in RunIds :
        /\ r # q /\ runs[r].conversationId = runs[q].conversationId
        /\ Concurrent(r, q)
        /\ Finished(r) /\ runs[r].status = "200" /\ runs[r].title # <<>>
        /\ Finished(q) /\ runs[q].status = "200" /\ runs[q].title = <<>>


\* C36: if a submission returns an error result to the caller, then no
\* assistant message produced by it is in the log and no message broadcast
\* was issued for it; conversely every persisted assistant message belongs
\* to a submission that returns the successful pair.
C36_ErrorMeansNoAssistantMessage ==
    /\ \A r \in RunIds :
          (Finished(r) /\ runs[r].status # "200")
          => /\ runs[r].aiMessage = <<>>
             /\ ~BroadcastFor(r)
    /\ \A m \in Written("assistant") :
          \E r \in RunIds :
              /\ runs[r].aiMessage = <<m>>
              /\ Finished(r)
                 => /\ runs[r].status = "200"
                    /\ runs[r].json = <<runs[r].userMessage[1], m>>


\* C37: for each conversation, message broadcasts are issued in the order in
\* which their assistant messages were appended to the log, under every
\* interleaving of concurrent submissions (the title update of one of them
\* between persisting and broadcasting included).
C37_BroadcastsInAppendOrder ==
    \A i, j \in 1..Len(broadcasts) :
        (i < j /\ broadcasts[i].conversationId = broadcasts[j].conversationId)
        => /\ broadcasts[i].data[2].id < broadcasts[j].data[2].id
           /\ broadcasts[i].data[2].createdAt < broadcasts[j].data[2].createdAt


\* C38: the message pair broadcast for a conversation is delivered only to
\* connections of the conversation's owner: a connection of another user
\* that has sent a typing frame naming that conversationId never receives
\* the conversation's message frame.
C38_MessagesReachOwnerOnly ==
    [][\A c \in {"c1", "c2"} :
          (notifyNewMessage(c) /\ sent' # <<>>)
          => \A k \in sent'[1].to : clients[k].userId = conversations[c].userId]_vars


\* C39: a well-formed inbound frame that is not a complete typing frame
\* (another type, or a typing frame missing userId or conversationId) leaves
\* every registry entry, the sender's userId and conversationId included,
\* unchanged and causes no broadcast to any other client.
C39_IncompleteFrameChangesNothing ==
    [][\A A \in ClientIds, m \in Frames :
          (Malformed(m) /\ handleMessage(A, m))
          => /\ clients' = clients
             /\ sent' = <<>> \/ sent'[1].to \subseteq {A}]_vars

\* three open clients are on c1 and the last frame was dropped: a complete
\* typing frame or a registration would have sent something
C39_Witness ==
    /\ DOMAIN clients = ClientIds
    /\ \A k \in ClientIds : clients[k].open /\ clients[k].conversationId = "c1"
    /\ sent = <<>>

====
